---- MODULE Spec2Model ----
(***************************************************************************)
(* Lost & Found service (server.js + db.js): the request handlers of the   *)
(* Express app over the SQLite tables items / claims / users and the       *)
(* upload directory.  A handler is split at the awaits where another       *)
(* request's statement can run in between; a request that is suspended at  *)
(* such an await is a record of `inflight'.  fs.unlink is asynchronous: it *)
(* is issued by the handler (the file joins `unlinking') and completes     *)
(* later (UnlinkDone).  The browse page of the service and the localStorage *)
(* variant of the site are documents in a browser, each with its own state *)
(* and its own specification.                                              *)
(***************************************************************************)
EXTENDS Integers, Sequences, FiniteSets, TLC

VARIABLES
  items,        \* table items: id -> row
  claims,       \* table claims: id -> row
  nextItemId,   \* AUTOINCREMENT of items
  nextClaimId,  \* AUTOINCREMENT of claims
  users,        \* table users: username -> [password_hash, role]
  uploads,      \* files present in UPLOAD_DIR
  unlinking,    \* files with an fs.unlink issued and not yet completed
  nextFile,     \* the next generated (uuid) file name
  session,      \* session store: client -> the session's user, or NoUser
  inflight,     \* requests suspended at an await
  now,          \* the clock CURRENT_TIMESTAMP reads (seconds)
  hits,         \* postLimiter: client -> requests counted in this window
  browse,       \* the browse page of the service (docs/js/main.js)
  local         \* the localStorage variant of the site (one document)

(* what the handlers read and write: everything but the limiter's counts *)
data == <<items, claims, nextItemId, nextClaimId, users, uploads, unlinking,
          nextFile, session, inflight, now>>

(* the documents open in a browser *)
pages == <<browse, local>>

vars == <<data, hits, pages>>

-----------------------------------------------------------------------------
(* Bounds of the model *)
MaxItems == 1
MaxClaims == 2
MaxFiles == 2
MaxInflight == 2

(* Caps of sanitizeString at its call sites *)
CapTitle == 120
CapDescription == 2000
CapCategory == 60
CapLocation == 120
CapDate == 10
CapReporterName == 80
CapReporterEmail == 120
CapClaimantName == 80
CapClaimantEmail == 120
CapStudentId == 40
CapMessage == 1500

NoFile == 0
NoUser == [id |-> 0, username |-> <<>>, role |-> ""]
AdminName == <<"a", "d", "m", "i", "n">>
Clients == {"c1"}

-----------------------------------------------------------------------------
(* Strings are sequences of one-character strings; a field that the request *)
(* does not carry is Undefined.                                             *)
Undefined == <<"undefined">>
WhiteSpace == {" ", "\t"}

Slice(s, max) == IF Len(s) <= max THEN s ELSE SubSeq(s, 1, max)

RECURSIVE TrimStart(_)
TrimStart(s) ==
  IF s # <<>> /\ Head(s) \in WhiteSpace THEN TrimStart(Tail(s)) ELSE s

RECURSIVE TrimEnd(_)
TrimEnd(s) ==
  IF s # <<>> /\ s[Len(s)] \in WhiteSpace
    THEN TrimEnd(SubSeq(s, 1, Len(s) - 1)) ELSE s

Trim(s) == TrimEnd(TrimStart(s))

sanitizeString(s, max) ==
  IF s = Undefined \/ s = <<>> THEN <<>> ELSE Trim(Slice(s, max))

(* Sample field values *)
Txt == <<"B", "a", "g">>
Padded == <<" ", "B", "a", "g", "\t">>
Blank == <<" ", " ">>
DateOk == <<"2", "0", "2", "5", "-", "0", "1", "-", "1", "0">>
LateText == <<" ", " ", " ", " ", " ", " ", " ", " ", " ", " ", "x">>

ItemFields == {"title", "description", "category", "location_found",
               "date_found", "reporter_name", "reporter_email"}

GoodItemBody ==
  [title |-> Txt, description |-> Txt, category |-> Txt,
   location_found |-> Txt, date_found |-> DateOk,
   reporter_name |-> Txt, reporter_email |-> Txt]

ItemBodies ==
  {[GoodItemBody EXCEPT !.title = Padded, !.reporter_name = Padded],
   [GoodItemBody EXCEPT !.title = Blank],
   [GoodItemBody EXCEPT !.category = <<>>, !.reporter_email = Undefined],
   [GoodItemBody EXCEPT !.date_found = LateText]}

-----------------------------------------------------------------------------
(* Helpers *)
isAdmin(c) == session[c] # NoUser /\ session[c].role = "admin"

(* res.status(code).json(body) *)
Response(code, body) == [code |-> code, body |-> body]

NoBody == <<>>

(* multer.diskStorage: the file is written under a fresh generated name *)
(* fault: a name that does not change from one upload to the next *)
StoredNameFirst == IF nextFile > 1 THEN 1 ELSE nextFile

StoredName == nextFile

(* fs.unlink(path, () => {}): issued now, done later; errors are ignored *)
UnlinkIssued(f) == unlinking \cup {f}

UnlinkDone(f) ==
  /\ f \in unlinking
  /\ unlinking' = unlinking \ {f}
  /\ uploads' = uploads \ {f}
  /\ UNCHANGED <<items, claims, nextItemId, nextClaimId, users, nextFile,
                 session, inflight, now>>

-----------------------------------------------------------------------------
(* The browse page (docs/js/main.js): the filter form, the page counter,    *)
(* the fetches of search() that have not been answered, and what the page   *)
(* shows.  A filter is the text of the form's q field; the answer of        *)
(* GET /api/items to a request is given by the number of approved items     *)
(* that match its filter, on a table that does not change.                  *)
MaxPage == 3
MaxFetches == 2
BrowseLimit == 12

FilterTexts == {"", "key", "zebra"}

(* the approved items matching the filter *)
TotalFor(q) == CASE q = "" -> 30 [] q = "key" -> 5 [] OTHER -> 0

(* res.json(): page, limit, total and the rows of the page *)
Answer(request) ==
  LET total == TotalFor(request.q)
      offset == (request.page - 1) * BrowseLimit
      last == IF offset + BrowseLimit <= total THEN offset + BrowseLimit ELSE total
  IN  [page |-> request.page, limit |-> BrowseLimit, total |-> total,
       items |-> [n \in 1..(IF last > offset THEN last - offset ELSE 0) |->
                    [q |-> request.q, position |-> offset + n]]]

Ceil(a, b) == (a + b - 1) \div b

(* the texts of the status line *)
Loading == [text |-> "Loading...", total |-> 0]
Found(total) == [text |-> "item(s) found", total |-> total]

(* paramsFromForm: the form's fields and the page counter *)
paramsFromForm == [q |-> browse.q, page |-> browse.page]

(* search(): lines 41-50, up to the fetch, for the form and counter given *)
search(q, page) ==
  /\ Cardinality(browse.fetches \cup {[q |-> q, page |-> page]}) <= MaxFetches
  /\ browse' = [browse EXCEPT
        !.q = q, !.page = page,
        !.fetches = @ \cup {[q |-> q, page |-> page]},
        !.status = Loading, !.results = <<>>,
        !.prevDisabled = TRUE, !.nextDisabled = TRUE]

(* the state when the script has run: the form empty, page 1, search(false) *)
BrowseLoaded ==
  [q |-> "", page |-> 1, fetches |-> {[q |-> "", page |-> 1]},
   status |-> Loading, results |-> <<>>, pageInfo |-> <<>>,
   prevDisabled |-> TRUE, nextDisabled |-> TRUE]

(* the submit handler, for the text typed in the form *)
FilterSubmit(q) == search(q, 1)

(* the click handler of Clear: form.reset(), page 1 *)
FilterClear == search("", 1)

(* the click handlers of Prev and Next; a disabled button gets no click *)
PrevClick ==
  /\ ~browse.prevDisabled
  /\ IF browse.page > 1 THEN search(browse.q, browse.page - 1)
     ELSE UNCHANGED browse

NextClick ==
  /\ ~browse.nextDisabled
  /\ browse.page < MaxPage
  /\ search(browse.q, browse.page + 1)

(* search(): lines 51-81, when the answer to a fetch has arrived *)
SearchAnswered(request) ==
  LET answer == Answer(request)
      totalPages == Ceil(answer.total, answer.limit)
  IN
  /\ request \in browse.fetches
  /\ browse' =
       IF answer.items = <<>>
         THEN [browse EXCEPT
                 !.fetches = @ \ {request},
                 !.status = Found(answer.total), !.results = <<"No items">>,
                 !.pageInfo = <<>>]
         ELSE [browse EXCEPT
                 !.fetches = @ \ {request},
                 !.status = Found(answer.total), !.results = answer.items,
                 !.pageInfo = <<answer.page,
                                IF totalPages = 0 THEN 1 ELSE totalPages>>,
                 !.prevDisabled = answer.page <= 1,
                 !.nextDisabled = answer.page >= totalPages]

BrowseNext ==
  \/ \E q \in FilterTexts : FilterSubmit(q) /\ UNCHANGED <<data, hits, local>>
  \/ FilterClear /\ UNCHANGED <<data, hits, local>>
  \/ PrevClick /\ UNCHANGED <<data, hits, local>>
  \/ NextClick /\ UNCHANGED <<data, hits, local>>
  \/ \E request \in browse.fetches :
       SearchAnswered(request) /\ UNCHANGED <<data, hits, local>>

(* The localStorage variant: the document that is open, the list under the *)
(* key lostAndFoundItems, the FileReader reads in progress, Date.now(), the *)
(* number of submit events handled, the browse page's inputs and grid, and  *)
(* for the admin panel the click listeners registered on the table body     *)
(* with the confirmations asked and the updateItemStatus or deleteItem      *)
(* calls made by the last click.                                            *)
LocalLoaded ==
  [page |-> "report", stored |-> <<>>, reads |-> {}, clock |-> 1,
   submitted |-> 0, term |-> <<>>, category |-> "all", grid |-> <<>>,
   listeners |-> 0, confirms |-> 0, calls |-> 0]

-----------------------------------------------------------------------------
Init ==
  /\ items = <<>>
  /\ claims = <<>>
  /\ nextItemId = 1
  /\ nextClaimId = 1
  /\ users = [u \in {AdminName} |->
                [id |-> 1, password_hash |-> "ChangeMe123!", role |-> "admin"]]
  /\ uploads = {}
  /\ unlinking = {}
  /\ nextFile = 1
  /\ session = [c \in Clients |-> NoUser]
  /\ inflight = {}
  /\ now = 0
  /\ hits = [c \in Clients |-> 0]
  /\ browse = BrowseLoaded /\ local = LocalLoaded

-----------------------------------------------------------------------------
(* POST /api/items: report a found item.  multer has stored the photo (if  *)
(* any) before the handler runs; the handler validates, then inserts.      *)
ItemRow(body, photo, at) ==
  [title |-> sanitizeString(body.title, CapTitle),
   description |-> sanitizeString(body.description, CapDescription),
   category |-> sanitizeString(body.category, CapCategory),
   location_found |-> sanitizeString(body.location_found, CapLocation),
   date_found |-> sanitizeString(body.date_found, CapDate),
   photo_filename |-> photo,
   status |-> "pending",
   reporter_name |-> sanitizeString(body.reporter_name, CapReporterName),
   reporter_email |-> sanitizeString(body.reporter_email, CapReporterEmail),
   created_at |-> at]

(* fault: a validation that tests the title only *)
ItemBodyValidTitleOnly(body) ==
  ItemRow(body, NoFile, 0).title # <<>>

(* if (!title || !description || ... || !reporter_email) is false *)
ItemBodyValid(body) ==
  LET row == ItemRow(body, NoFile, 0)
  IN  \A f \in ItemFields : row[f] # <<>>

(* seconds between this insert and the one before it; the first insert is  *)
(* the origin of the clock                                                  *)
Elapsed == IF nextItemId = 1 THEN {0} ELSE {0, 1}

PostItemsResponse(body) ==
  IF ~ItemBodyValid(body)
    THEN Response(400, NoBody)
    ELSE Response(201, [id |-> nextItemId, status |-> "pending"])

PostItems(body, hasPhoto) ==
  LET file == IF hasPhoto THEN StoredName ELSE NoFile
  IN
  /\ hasPhoto => nextFile <= MaxFiles
  /\ nextFile' = IF hasPhoto THEN nextFile + 1 ELSE nextFile
  /\ uploads' = IF hasPhoto THEN uploads \cup {file} ELSE uploads
  /\ IF PostItemsResponse(body).code = 400
       THEN /\ unlinking' = IF hasPhoto THEN UnlinkIssued(file) ELSE unlinking
            /\ UNCHANGED <<items, nextItemId, now>>
       ELSE /\ nextItemId <= MaxItems
            /\ \E elapsed \in Elapsed : now' = now + elapsed
            /\ items' = items @@ (nextItemId :> ItemRow(body, file, now'))
            /\ nextItemId' = nextItemId + 1
            /\ UNCHANGED unlinking
  /\ UNCHANGED <<claims, nextClaimId, users, session, inflight>>

(* GET /api/items/:id: approved only unless admin *)
(* fault: the handler hiding only the rows that are still pending *)
GetItemsIdResponseDraftOnly(c, id) ==
  IF id \notin DOMAIN items THEN Response(404, NoBody)
  ELSE IF items[id].status = "pending" /\ ~isAdmin(c)
    THEN Response(403, NoBody)
  ELSE Response(200, items[id])

GetItemsIdResponse(c, id) ==
  IF id \notin DOMAIN items THEN Response(404, NoBody)
  ELSE IF items[id].status # "approved" /\ ~isAdmin(c)
    THEN Response(403, NoBody)
  ELSE Response(200, items[id])

GetItemsId(c, id) ==
  /\ GetItemsIdResponse(c, id).code \in {200, 403, 404}
  /\ UNCHANGED data

(* POST /api/auth/login and /api/auth/logout *)
(* bcrypt.compare(password, user.password_hash) *)
Verifies(password, hash) == password = hash

PostAuthLoginResponseNoCompare(username, password) ==
  LET name == Trim(username)
  IN  IF name \in DOMAIN users
        THEN Response(200, [username |-> name, role |-> users[name].role])
        ELSE Response(401, NoBody)

PostAuthLoginResponse(username, password) ==
  LET name == Trim(username)
  IN  IF name \in DOMAIN users /\ Verifies(password, users[name].password_hash)
        THEN Response(200, [username |-> name, role |-> users[name].role])
        ELSE Response(401, NoBody)

PostAuthLogin(c, username, password) ==
  /\ IF PostAuthLoginResponse(username, password).code = 200
       THEN LET user == users[Trim(username)]
            IN  session' = [session EXCEPT ![c] =
                              [id |-> user.id, username |-> Trim(username),
                               role |-> user.role]]
       ELSE UNCHANGED session
  /\ UNCHANGED <<items, claims, nextItemId, nextClaimId, users, uploads,
                 unlinking, nextFile, inflight, now>>

PostAuthLogoutKeepsUser(c) ==
  /\ session' = [session EXCEPT ![c] = [@ EXCEPT !.id = 0]]
  /\ UNCHANGED <<items, claims, nextItemId, nextClaimId, users, uploads,
                 unlinking, nextFile, inflight, now>>

PostAuthLogout(c) ==
  /\ session' = [session EXCEPT ![c] = NoUser]
  /\ UNCHANGED <<items, claims, nextItemId, nextClaimId, users, uploads,
                 unlinking, nextFile, inflight, now>>

-----------------------------------------------------------------------------
(* PATCH /api/admin/items/:id  { action, ...fields }                       *)
EditFields == {"title", "description", "category", "location_found",
               "date_found"}

(* a payload that carries a new title and category only *)
EditBody ==
  [f \in EditFields |->
     CASE f = "title" -> <<"K", "e", "y", " ">>
       [] f = "category" -> Padded
       [] OTHER -> Undefined]

EditBodies == {EditBody}

Actions == {"approve", "archive", "mark_claimed", "edit", "publish"}

(* fault: an edit that sends the item back to review *)
EditedRowResubmitted(row, body) ==
  [row EXCEPT
     !.title = sanitizeString(body.title, CapTitle),
     !.description = sanitizeString(body.description, CapDescription),
     !.category = sanitizeString(body.category, CapCategory),
     !.location_found = sanitizeString(body.location_found, CapLocation),
     !.date_found = sanitizeString(body.date_found, CapDate),
     !.status = "pending"]

(* the five columns the edit action overwrites *)
EditedRow(row, body) ==
  [row EXCEPT
     !.title = sanitizeString(body.title, CapTitle),
     !.description = sanitizeString(body.description, CapDescription),
     !.category = sanitizeString(body.category, CapCategory),
     !.location_found = sanitizeString(body.location_found, CapLocation),
     !.date_found = sanitizeString(body.date_found, CapDate)]

(* the UPDATE statement the action dispatch runs on the row *)
ActionUpdate(row, action, body) ==
  CASE action = "approve" -> [row EXCEPT !.status = "approved"]
    [] action = "archive" -> [row EXCEPT !.status = "archived"]
    [] action = "mark_claimed" -> [row EXCEPT !.status = "claimed"]
    [] action = "edit" -> EditedRow(row, body)
    [] OTHER -> row

KnownAction(action) ==
  action \in {"approve", "archive", "mark_claimed", "edit"}

(* requireAdmin; SELECT the item; the UPDATE of the action; the row read   *)
(* back is the response                                                     *)
(* fault: the route without requireAdmin *)
PatchAdminItemsResponseOpen(c, id, action, body) ==
  IF id \notin DOMAIN items THEN Response(404, NoBody)
  ELSE IF ~KnownAction(action) THEN Response(400, NoBody)
  ELSE Response(200, ActionUpdate(items[id], action, body))

PatchAdminItemsResponse(c, id, action, body) ==
  IF ~isAdmin(c) THEN Response(401, NoBody)
  ELSE IF id \notin DOMAIN items THEN Response(404, NoBody)
  ELSE IF ~KnownAction(action) THEN Response(400, NoBody)
  ELSE Response(200, ActionUpdate(items[id], action, body))

PatchAdminItems(c, id, action, body) ==
  /\ items' = IF PatchAdminItemsResponse(c, id, action, body).code = 200
                THEN [items EXCEPT ![id] = ActionUpdate(@, action, body)]
                ELSE items
  /\ UNCHANGED <<claims, nextItemId, nextClaimId, users, uploads, unlinking,
                 nextFile, session, inflight, now>>

-----------------------------------------------------------------------------
(* DELETE /api/admin/items/:id                                             *)
ClaimsOf(id) == {k \in DOMAIN claims : claims[k].item_id = id}

ProofFilesOf(id) ==
  {claims[k].proof_filename : k \in ClaimsOf(id)} \ {NoFile}

(* requireAdmin, then SELECT photo_filename FROM items WHERE id = ? *)
DeleteAdminItemsGate(c, id) ==
  IF ~isAdmin(c) THEN Response(401, NoBody)
  ELSE IF id \notin DOMAIN items THEN Response(404, NoBody)
  ELSE Response(0, NoBody)

DeleteAdminItemsBegin(c, id) ==
  /\ IF DeleteAdminItemsGate(c, id).code # 0
       THEN UNCHANGED inflight
       ELSE /\ Cardinality(inflight) < MaxInflight
            /\ inflight' = inflight \cup
                 {[kind |-> "delete", pc |-> "claims", id |-> id,
                   photo |-> items[id].photo_filename]}
  /\ UNCHANGED <<items, claims, nextItemId, nextClaimId, users, uploads,
                 unlinking, nextFile, session, now>>

(* SELECT proof_filename FROM claims WHERE item_id = ?; an unlink is issued *)
(* for each proof file read and for the photo; the DELETE is issued         *)
DeleteAdminItemsClaims(r) ==
  /\ r \in inflight /\ r.kind = "delete" /\ r.pc = "claims"
  /\ unlinking' = unlinking \cup ProofFilesOf(r.id) \cup ({r.photo} \ {NoFile})
  /\ inflight' = (inflight \ {r}) \cup
                   {[kind |-> "delete", pc |-> "row", id |-> r.id]}
  /\ UNCHANGED <<items, claims, nextItemId, nextClaimId, users, uploads,
                 nextFile, session, now>>

(* DELETE FROM items WHERE id = ?; claims go by ON DELETE CASCADE; then    *)
(* res.json({ message: 'Deleted' })                                         *)
DeleteAdminItemsRow(r) ==
  /\ r \in inflight /\ r.kind = "delete" /\ r.pc = "row"
  /\ inflight' = inflight \ {r}
  /\ items' = [i \in DOMAIN items \ {r.id} |-> items[i]]
  /\ claims' = [k \in DOMAIN claims \ ClaimsOf(r.id) |-> claims[k]]
  /\ UNCHANGED <<nextItemId, nextClaimId, users, uploads, unlinking, nextFile,
                 session, now>>

-----------------------------------------------------------------------------
(* POST /api/items/:id/claim                                               *)
GoodClaimBody ==
  [claimant_name |-> Txt, claimant_email |-> Txt, student_id |-> Undefined,
   message |-> Padded]

ClaimBodies ==
  {GoodClaimBody,
   [GoodClaimBody EXCEPT !.claimant_name = Blank],
   [GoodClaimBody EXCEPT !.claimant_email = Undefined],
   [GoodClaimBody EXCEPT !.message = <<>>,
                         !.student_id = Txt]}

(* fault: the row inserted as already under review *)
ClaimRowInReview(id, body, proof) ==
  [item_id |-> id,
   claimant_name |-> sanitizeString(body.claimant_name, CapClaimantName),
   claimant_email |-> sanitizeString(body.claimant_email, CapClaimantEmail),
   student_id |-> sanitizeString(body.student_id, CapStudentId),
   message |-> sanitizeString(body.message, CapMessage),
   proof_filename |-> proof,
   status |-> "in_review"]

ClaimRow(id, body, proof) ==
  [item_id |-> id,
   claimant_name |-> sanitizeString(body.claimant_name, CapClaimantName),
   claimant_email |-> sanitizeString(body.claimant_email, CapClaimantEmail),
   student_id |-> sanitizeString(body.student_id, CapStudentId),
   message |-> sanitizeString(body.message, CapMessage),
   proof_filename |-> proof,
   status |-> "new"]

ClaimBodyValid(body) ==
  LET row == ClaimRow(0, body, NoFile)
  IN  row.claimant_name # <<>> /\ row.claimant_email # <<>> /\ row.message # <<>>

ClaimsQueued == Cardinality({r \in inflight : r.kind = "claim"})

(* SELECT id, status FROM items WHERE id = ?, then validation: the response *)
(* sent before any INSERT, or code 0 when the INSERT is issued              *)
(* fault: the handler without the test of the item's status *)
PostItemsIdClaimGateAnyStatus(id, body) ==
  IF id \notin DOMAIN items THEN Response(404, NoBody)
  ELSE IF ~ClaimBodyValid(body) THEN Response(400, NoBody)
  ELSE Response(0, NoBody)

PostItemsIdClaimGate(id, body) ==
  IF id \notin DOMAIN items \/ items[id].status = "archived"
    THEN Response(404, NoBody)
  ELSE IF ~ClaimBodyValid(body) THEN Response(400, NoBody)
  ELSE Response(0, NoBody)

(* multer has stored the proof (if any) before the handler runs *)
PostItemsIdClaimBegin(id, body, hasProof) ==
  LET file == IF hasProof THEN StoredName ELSE NoFile
  IN
  /\ hasProof => nextFile <= MaxFiles
  /\ nextFile' = IF hasProof THEN nextFile + 1 ELSE nextFile
  /\ uploads' = IF hasProof THEN uploads \cup {file} ELSE uploads
  /\ IF PostItemsIdClaimGate(id, body).code # 0
       THEN /\ unlinking' = IF hasProof THEN UnlinkIssued(file) ELSE unlinking
            /\ UNCHANGED inflight
       ELSE /\ Cardinality(inflight) < MaxInflight
            /\ nextClaimId + ClaimsQueued <= MaxClaims
            /\ inflight' = inflight \cup
                 {[kind |-> "claim", row |-> ClaimRow(id, body, file)]}
            /\ UNCHANGED unlinking
  /\ UNCHANGED <<items, claims, nextItemId, nextClaimId, users, session, now>>

(* fault: the INSERT without the foreign key on item_id *)
PostItemsIdClaimResponseNoForeignKey(r) ==
  Response(201, [id |-> nextClaimId, status |-> "new"])

(* the INSERT runs; with foreign_keys = ON it throws when the item has gone *)
(* and the catch block unlinks the proof                                    *)
PostItemsIdClaimResponse(r) ==
  IF r.row.item_id \in DOMAIN items
    THEN Response(201, [id |-> nextClaimId, status |-> "new"])
    ELSE Response(500, NoBody)

PostItemsIdClaimInsert(r) ==
  /\ r \in inflight /\ r.kind = "claim"
  /\ inflight' = inflight \ {r}
  /\ IF PostItemsIdClaimResponse(r).code = 201
       THEN /\ claims' = claims @@ (nextClaimId :> r.row)
            /\ nextClaimId' = nextClaimId + 1
            /\ UNCHANGED unlinking
       ELSE /\ unlinking' = IF r.row.proof_filename # NoFile
                              THEN UnlinkIssued(r.row.proof_filename)
                              ELSE unlinking
            /\ UNCHANGED <<claims, nextClaimId>>
  /\ UNCHANGED <<items, nextItemId, users, uploads, nextFile, session, now>>

-----------------------------------------------------------------------------
(* PATCH /api/admin/claims/:id  { status }                                 *)
valid == {"new", "in_review", "approved", "rejected", "resolved"}

StatusInputs == valid \cup {"closed"}

(* UPDATE claims SET status = ? WHERE id = ? *)
ClaimsUpdate(id, status) ==
  IF id \in DOMAIN claims THEN [claims EXCEPT ![id].status = status] ELSE claims

(* fault: the handler without the test of line 369 *)
PatchAdminClaimsResponseAnyStatus(c, id, status) ==
  IF ~isAdmin(c) THEN Response(401, NoBody)
  ELSE Response(200, IF id \in DOMAIN claims
                       THEN ClaimsUpdate(id, status)[id] ELSE NoBody)

PatchAdminClaimsResponse(c, id, status) ==
  IF ~isAdmin(c) THEN Response(401, NoBody)
  ELSE IF status \notin valid THEN Response(400, NoBody)
  ELSE Response(200, IF id \in DOMAIN claims
                       THEN ClaimsUpdate(id, status)[id] ELSE NoBody)

PatchAdminClaims(c, id, status) ==
  /\ claims' = IF PatchAdminClaimsResponse(c, id, status).code = 200
                 THEN ClaimsUpdate(id, status) ELSE claims
  /\ UNCHANGED <<items, nextItemId, nextClaimId, users, uploads, unlinking,
                 nextFile, session, inflight, now>>

-----------------------------------------------------------------------------
(* GET /api/items: list/search                                             *)
UpperCase == <<"A", "B", "C", "D", "E", "F", "G", "H", "I", "J", "K", "L", "M",
               "N", "O", "P", "Q", "R", "S", "T", "U", "V", "W", "X", "Y", "Z">>
LowerCase == <<"a", "b", "c", "d", "e", "f", "g", "h", "i", "j", "k", "l", "m",
               "n", "o", "p", "q", "r", "s", "t", "u", "v", "w", "x", "y", "z">>
Digits == <<"0", "1", "2", "3", "4", "5", "6", "7", "8", "9">>

(* the characters in use, in code-point order (BINARY collation) *)
Ascii == <<"\t", " ", "%", "+", "-">> \o Digits \o UpperCase \o <<"_">> \o LowerCase

Code(ch) == CHOOSE i \in 1..Len(Ascii) : Ascii[i] = ch

(* LIKE folds the case of ASCII letters *)
FoldTable ==
  [ch \in {UpperCase[i] : i \in 1..Len(UpperCase)} |->
     LowerCase[CHOOSE i \in 1..Len(UpperCase) : UpperCase[i] = ch]]

Fold(ch) == IF ch \in DOMAIN FoldTable THEN FoldTable[ch] ELSE ch

RECURSIVE Like(_, _)
Like(text, pattern) ==
  IF pattern = <<>> THEN text = <<>>
  ELSE IF Head(pattern) = "%"
    THEN Like(text, Tail(pattern)) \/ (text # <<>> /\ Like(Tail(text), pattern))
  ELSE /\ text # <<>>
       /\ Head(pattern) = "_" \/ Fold(Head(pattern)) = Fold(Head(text))
       /\ Like(Tail(text), Tail(pattern))

RECURSIVE StrLeq(_, _)
StrLeq(a, b) ==
  IF a = <<>> THEN TRUE
  ELSE IF b = <<>> THEN FALSE
  ELSE IF Head(a) = Head(b) THEN StrLeq(Tail(a), Tail(b))
  ELSE Code(Head(a)) < Code(Head(b))

(* JavaScript numbers: an integer or NaN *)
Num(v) == [nan |-> FALSE, v |-> v]
NaN == [nan |-> TRUE, v |-> 0]

(* the digits of radix 10 and 16; parseInt without a radix reads a string  *)
(* that begins with 0x or 0X in radix 16                                    *)
DigitChars == Digits \o <<"a", "b", "c", "d", "e", "f">>
DigitValue(ch) == (CHOOSE i \in 1..Len(DigitChars) : DigitChars[i] = Fold(ch)) - 1
IsDigit(ch, radix) == \E i \in 1..radix : DigitChars[i] = Fold(ch)

RECURSIVE ParseDigits(_, _, _, _)
ParseDigits(s, radix, acc, seen) ==
  IF s # <<>> /\ IsDigit(Head(s), radix)
    THEN ParseDigits(Tail(s), radix, radix * acc + DigitValue(Head(s)), TRUE)
    ELSE IF seen THEN Num(acc) ELSE NaN

parseInt(s) ==
  LET t == TrimStart(s)
      neg == t # <<>> /\ Head(t) = "-"
      u == IF t # <<>> /\ Head(t) \in {"-", "+"} THEN Tail(t) ELSE t
      hex == Len(u) >= 2 /\ u[1] = "0" /\ u[2] \in {"x", "X"}
      n == IF hex THEN ParseDigits(Tail(Tail(u)), 16, 0, FALSE)
                  ELSE ParseDigits(u, 10, 0, FALSE)
  IN  IF s = Undefined \/ n.nan THEN NaN
      ELSE IF neg THEN Num(0 - n.v) ELSE n

MathMax(a, b) == IF a.nan \/ b.nan THEN NaN ELSE IF a.v >= b.v THEN a ELSE b
MathMin(a, b) == IF a.nan \/ b.nan THEN NaN ELSE IF a.v <= b.v THEN a ELSE b

(* destructuring default: only an absent parameter takes it *)
Param(v, default) == IF v = Undefined THEN default ELSE v

AbsentParam == "<absent>"
(* fault: the handler without the default of line 90, so that a request    *)
(* without a status parameter is not filtered by status                    *)
StatusParamUnfiltered(query) ==
  IF query.status = AbsentParam THEN "" ELSE query.status

StatusParam(query) ==
  IF query.status = AbsentParam THEN "approved" ELSE query.status

pageNum(query) == MathMax(Num(1), parseInt(Param(query.page, <<"1">>)))
perPage(query) ==
  MathMax(Num(1), MathMin(Num(50), parseInt(Param(query.limit, <<"2", "0">>))))

(* the WHERE clause: the conjunction of the filters that are given *)
Where(row, query) ==
  LET q == Param(query.q, <<>>)
      category == Param(query.category, <<>>)
      location == Param(query.location, <<>>)
      date_from == Param(query.date_from, <<>>)
      date_to == Param(query.date_to, <<>>)
  IN
  /\ StatusParam(query) # "" => row.status = StatusParam(query)
  /\ q # <<>> => \/ Like(row.title, <<"%">> \o q \o <<"%">>)
                 \/ Like(row.description, <<"%">> \o q \o <<"%">>)
  /\ category # <<>> => row.category = category
  /\ location # <<>> => Like(row.location_found, <<"%">> \o location \o <<"%">>)
  /\ date_from # <<>> => StrLeq(date_from, row.date_found)
  /\ date_to # <<>> => StrLeq(row.date_found, date_to)

(* fault: the WHERE clause without its status condition *)
MatchingAnyStatus(query) ==
  {i \in DOMAIN items :
     Where([items[i] EXCEPT !.status = StatusParam(query)], query)}

Matching(query) == {i \in DOMAIN items : Where(items[i], query)}

(* ORDER BY created_at ASC|DESC; rows of equal created_at in rowid order *)
Before(i, j, sort) ==
  IF items[i].created_at = items[j].created_at THEN i < j
  ELSE IF sort = "oldest" THEN items[i].created_at < items[j].created_at
  ELSE items[i].created_at > items[j].created_at

RECURSIVE Ordered(_, _)
Ordered(S, sort) ==
  IF S = {} THEN <<>>
  ELSE LET first == CHOOSE i \in S : \A j \in S \ {i} : Before(i, j, sort)
       IN  <<first>> \o Ordered(S \ {first}, sort)

(* fault: an offset of page * limit instead of (page - 1) * limit *)
LimitOffsetPastPage(seq, limit, offset) ==
  SubSeq(seq, offset + limit + 1,
         IF offset + 2 * limit <= Len(seq) THEN offset + 2 * limit ELSE Len(seq))

(* LIMIT ? OFFSET ? *)
LimitOffset(seq, limit, offset) ==
  SubSeq(seq, offset + 1,
         IF offset + limit <= Len(seq) THEN offset + limit ELSE Len(seq))

ListedRow(i) ==
  [id |-> i, title |-> items[i].title, description |-> items[i].description,
   category |-> items[i].category, location_found |-> items[i].location_found,
   date_found |-> items[i].date_found,
   photo_filename |-> items[i].photo_filename, status |-> items[i].status,
   created_at |-> items[i].created_at]

DefaultQuery ==
  [q |-> Undefined, category |-> Undefined, location |-> Undefined,
   status |-> AbsentParam, date_from |-> Undefined, date_to |-> Undefined,
   sort |-> AbsentParam, page |-> Undefined, limit |-> Undefined]

Queries ==
  {DefaultQuery,
   [DefaultQuery EXCEPT !.q = <<"b", "A">>, !.sort = "oldest"],
   [DefaultQuery EXCEPT !.status = ""],
   [DefaultQuery EXCEPT !.status = "pending", !.limit = <<"1">>,
                        !.page = <<"2">>]}

(* SELECT COUNT ... FROM items WHERE ..., then SELECT ... ORDER BY ...     *)
(* LIMIT ? OFFSET ?; the response carries the count and the page            *)
(* a LIMIT or OFFSET bound to NaN is no integer: the statement fails with   *)
(* a datatype mismatch and the catch block answers 500                      *)
GetItemsResponse(query) ==
  LET page == pageNum(query).v
      limit == perPage(query).v
      offset == (page - 1) * limit
      ids == LimitOffset(Ordered(Matching(query), query.sort), limit, offset)
  IN  IF pageNum(query).nan \/ perPage(query).nan
        THEN Response(500, NoBody)
        ELSE Response(200, [page |-> page, limit |-> limit,
                            total |-> Cardinality(Matching(query)),
                            items |-> [n \in 1..Len(ids) |-> ListedRow(ids[n])]])

GetItems(query) ==
  /\ GetItemsResponse(query).code \in {200, 500}
  /\ UNCHANGED data

-----------------------------------------------------------------------------
(* upload.single(field) in front of the two Submit handlers: multer calls   *)
(* fileFilter before it stores anything and passes its error on, so the     *)
(* handler does not run; a file that grows past limits.fileSize is being    *)
(* written under its generated name when the limit is hit, and multer       *)
(* removes it before it passes LIMIT_FILE_SIZE on.                          *)
FileSizeLimit == 5 * 1024 * 1024

fileFilter(mimetype) == mimetype \in {"image/jpeg", "image/png", "image/webp"}

UploadRoutes == {"/api/items", "/api/items/:id/claim"}

(* the upload of a request that the middleware will not let through *)
uploadSingle(route, mimetype, size) ==
  /\ ~fileFilter(mimetype) \/ size > FileSizeLimit
  /\ IF ~fileFilter(mimetype)
       THEN UNCHANGED <<uploads, nextFile, inflight>>
       ELSE /\ nextFile <= MaxFiles
            /\ Cardinality(inflight) < MaxInflight
            /\ nextFile' = nextFile + 1
            /\ uploads' = uploads \cup {StoredName}
            /\ inflight' = inflight \cup
                 {[kind |-> "upload", route |-> route, file |-> StoredName]}
  /\ UNCHANGED <<items, claims, nextItemId, nextClaimId, users, unlinking,
                 session, now>>

(* fault: the error passed on with the partial file left in place *)
uploadAbortKeepsFile(r) ==
  /\ r \in inflight /\ r.kind = "upload"
  /\ inflight' = inflight \ {r}
  /\ UNCHANGED <<items, claims, nextItemId, nextClaimId, users, uploads,
                 unlinking, nextFile, session, now>>

(* the stored part is removed, then the error reaches the error handler *)
uploadAbort(r) ==
  /\ r \in inflight /\ r.kind = "upload"
  /\ uploads' = uploads \ {r.file}
  /\ inflight' = inflight \ {r}
  /\ UNCHANGED <<items, claims, nextItemId, nextClaimId, users, unlinking,
                 nextFile, session, now>>

-----------------------------------------------------------------------------
(* GET /api/admin/items, /api/admin/claims, /api/admin/stats and           *)
(* POST /api/admin/change-password, all behind requireAdmin                *)
AdminCap == 200
MinPassword == 8

AdminWhere(row, query) ==
  LET status == IF query.status = AbsentParam THEN "" ELSE query.status
      q == Param(query.q, <<>>)
  IN  /\ status # "" => row.status = status
      /\ q # <<>> => \/ Like(row.title, <<"%">> \o q \o <<"%">>)
                     \/ Like(row.description, <<"%">> \o q \o <<"%">>)

AdminListedRow(i) ==
  [id |-> i, title |-> items[i].title, category |-> items[i].category,
   location_found |-> items[i].location_found,
   date_found |-> items[i].date_found, status |-> items[i].status,
   created_at |-> items[i].created_at]

GetAdminItemsResponse(c, query) ==
  IF ~isAdmin(c) THEN Response(401, NoBody)
  ELSE LET ids == LimitOffset(
                    Ordered({i \in DOMAIN items : AdminWhere(items[i], query)},
                            "newest"), AdminCap, 0)
       IN  Response(200, [n \in 1..Len(ids) |-> AdminListedRow(ids[n])])

GetAdminItems(c, query) ==
  /\ GetAdminItemsResponse(c, query).code \in {200, 401}
  /\ UNCHANGED data

(* claims JOIN items; the rows are given as a set: the model of a claim     *)
(* row does not carry the created_at the statement orders by                *)
GetAdminClaimsResponse(c, status) ==
  IF ~isAdmin(c) THEN Response(401, NoBody)
  ELSE Response(200,
         {[id |-> k, item_id |-> claims[k].item_id,
           claimant_name |-> claims[k].claimant_name,
           claimant_email |-> claims[k].claimant_email,
           student_id |-> claims[k].student_id, status |-> claims[k].status,
           item_title |-> items[claims[k].item_id].title,
           item_status |-> items[claims[k].item_id].status] :
            k \in {j \in DOMAIN claims :
                     /\ claims[j].item_id \in DOMAIN items
                     /\ status # "" => claims[j].status = status}})

GetAdminClaims(c, status) ==
  /\ GetAdminClaimsResponse(c, status).code \in {200, 401}
  /\ UNCHANGED data

GetAdminStatsResponse(c) ==
  LET count(status) ==
        Cardinality({i \in DOMAIN items : items[i].status = status})
  IN  IF ~isAdmin(c) THEN Response(401, NoBody)
      ELSE Response(200,
             [items |-> [total |-> Cardinality(DOMAIN items),
                         pending |-> count("pending"),
                         approved |-> count("approved"),
                         claimed |-> count("claimed")],
              claims |-> [total |-> Cardinality(DOMAIN claims),
                          new |-> Cardinality({k \in DOMAIN claims :
                                                 claims[k].status = "new"})]])

GetAdminStats(c) ==
  /\ GetAdminStatsResponse(c).code \in {200, 401}
  /\ UNCHANGED data

(* the stored hash is modelled by the password it was computed from *)
PostAdminChangePasswordResponse(c, current, next) ==
  IF ~isAdmin(c) THEN Response(401, NoBody)
  ELSE IF ~Verifies(current, users[session[c].username].password_hash)
    THEN Response(400, NoBody)
  ELSE IF Len(next) < MinPassword THEN Response(400, NoBody)
  ELSE Response(200, NoBody)

PostAdminChangePassword(c, current, next) ==
  /\ users' = IF PostAdminChangePasswordResponse(c, current, next).code = 200
                THEN [users EXCEPT ![session[c].username].password_hash = next]
                ELSE users
  /\ UNCHANGED <<items, claims, nextItemId, nextClaimId, uploads, unlinking,
                 nextFile, session, inflight, now>>

-----------------------------------------------------------------------------
Usernames == {AdminName, <<" ">> \o AdminName, <<"b", "o", "b">>}
Passwords == {"ChangeMe123!", "letmein"}
ItemIds == 1..MaxItems
ClaimIds == 1..MaxClaims

(* the requests the limiter lets through (or does not see) within a window; *)
(* the limiter itself is the subject of RateSpec                            *)
Next ==
  \/ \E body \in ItemBodies, hasPhoto \in BOOLEAN :
       PostItems(body, hasPhoto) /\ UNCHANGED <<hits, pages>>
  \/ \E c \in Clients, id \in ItemIds : GetItemsId(c, id) /\ UNCHANGED <<hits, pages>>
  \/ \E query \in Queries : GetItems(query) /\ UNCHANGED <<hits, pages>>
  \/ \E c \in Clients, u \in Usernames, p \in Passwords :
       PostAuthLogin(c, u, p) /\ UNCHANGED <<hits, pages>>
  \/ \E c \in Clients : PostAuthLogout(c) /\ UNCHANGED <<hits, pages>>
  \/ \E c \in Clients, id \in ItemIds, action \in Actions, body \in EditBodies :
       PatchAdminItems(c, id, action, body) /\ UNCHANGED <<hits, pages>>
  \/ \E c \in Clients, id \in ItemIds :
       DeleteAdminItemsBegin(c, id) /\ UNCHANGED <<hits, pages>>
  \/ \E r \in inflight : DeleteAdminItemsClaims(r) /\ UNCHANGED <<hits, pages>>
  \/ \E r \in inflight : DeleteAdminItemsRow(r) /\ UNCHANGED <<hits, pages>>
  \/ \E id \in ItemIds, body \in ClaimBodies, hasProof \in BOOLEAN :
       PostItemsIdClaimBegin(id, body, hasProof) /\ UNCHANGED <<hits, pages>>
  \/ \E r \in inflight : PostItemsIdClaimInsert(r) /\ UNCHANGED <<hits, pages>>
  \/ \E c \in Clients, id \in ClaimIds, status \in StatusInputs :
       PatchAdminClaims(c, id, status) /\ UNCHANGED <<hits, pages>>
  \/ \E f \in unlinking : UnlinkDone(f) /\ UNCHANGED <<hits, pages>>

Spec == Init /\ [][Next]_vars

-----------------------------------------------------------------------------
(* The list handler over a stored table: the tables of up to MaxRows rows   *)
(* that Submit, edit and the status actions can leave, created in id order  *)
(* with creation times that never decrease, and the list requests on them.  *)
MaxRows == 3

KeyTxt == <<"K", "e", "y">>
UpperTxt == <<"B", "A", "G">>
DateLater == <<"2", "0", "2", "5", "-", "0", "2", "-", "0", "1">>

RowOf(title, description, category, location, date, status) ==
  [ItemRow([title |-> title, description |-> description,
            category |-> category, location_found |-> location,
            date_found |-> date, reporter_name |-> Txt,
            reporter_email |-> Txt], NoFile, 0)
     EXCEPT !.status = status]

SampleRows ==
  {RowOf(UpperTxt, KeyTxt, Txt, Txt, DateOk, "approved"),
   RowOf(KeyTxt, KeyTxt, KeyTxt, KeyTxt, DateOk, "approved"),
   RowOf(Txt, Txt, Txt, KeyTxt, DateLater, "archived"),
   RowOf(KeyTxt, Txt, KeyTxt, Txt, DateLater, "pending")}

RECURSIVE Tables(_)
Tables(n) ==
  IF n = 0 THEN {<<>>}
  ELSE {Append(t, [r EXCEPT !.created_at =
                     IF t = <<>> THEN 0 ELSE t[Len(t)].created_at + elapsed]) :
          t \in Tables(n - 1), r \in SampleRows, elapsed \in {0, 1}}

ListFilters ==
  {DefaultQuery,
   [DefaultQuery EXCEPT !.status = ""],
   [DefaultQuery EXCEPT !.status = "", !.q = <<"b", "A">>],
   [DefaultQuery EXCEPT !.status = "", !.q = <<"b", "_", "g">>],
   [DefaultQuery EXCEPT !.status = "", !.category = Txt],
   [DefaultQuery EXCEPT !.location = <<"k", "e">>, !.date_from = DateLater],
   [DefaultQuery EXCEPT !.status = "pending", !.date_to = DateLater],
   [DefaultQuery EXCEPT !.status = "", !.q = KeyTxt, !.category = KeyTxt,
                        !.date_to = DateOk]}

PageLimitQueries ==
  {[DefaultQuery EXCEPT !.status = "", !.page = pl[1], !.limit = pl[2]] :
     pl \in {<<<<"0">>, <<"0">>>>, <<<<"-", "3">>, <<"7", "0">>>>,
             <<<<"2">>, <<"1">>>>, <<<<" ", "2", "x">>, <<"0", "x", "2">>>>,
             <<<<"a", "b", "c">>, Undefined>>, <<Undefined, <<>>>>}}

ListQueries ==
  {[f EXCEPT !.sort = sl[1], !.limit = sl[2]] :
     f \in ListFilters,
     sl \in {<<AbsentParam, Undefined>>, <<AbsentParam, <<"2">>>>,
             <<"oldest", <<"2">>>>, <<"oldest", <<"1">>>>}} \cup PageLimitQueries

ListInit ==
  /\ items \in UNION {Tables(n) : n \in 0..MaxRows}
  /\ nextItemId = Len(items) + 1
  /\ now = IF items = <<>> THEN 0 ELSE items[Len(items)].created_at
  /\ claims = <<>>
  /\ nextClaimId = 1
  /\ users = [u \in {AdminName} |->
                [id |-> 1, password_hash |-> "ChangeMe123!", role |-> "admin"]]
  /\ uploads = {}
  /\ unlinking = {}
  /\ nextFile = 1
  /\ session = [c \in Clients |-> NoUser]
  /\ inflight = {}
  /\ hits = [c \in Clients |-> 0]
  /\ browse = BrowseLoaded /\ local = LocalLoaded

ListNext == \E query \in ListQueries : GetItems(query) /\ UNCHANGED <<hits, pages>>

ListSpec == ListInit /\ [][ListNext]_vars

-----------------------------------------------------------------------------
(* The rate limiter: rateLimit({ windowMs: 60 * 1000, max: 60 }) mounted on *)
(* /api/items, /api/auth/login and /api/items/*/claim.  A request under one *)
(* of these paths is counted, and answered 429 without reaching its handler *)
(* once the client's count for the window has passed the maximum; the       *)
(* routes under /api/admin are not under the limiter.                       *)
RateMax == 60

postLimiter(c, handler) ==
  /\ hits[c] <= RateMax
  /\ hits' = [hits EXCEPT ![c] = @ + 1]
  /\ IF hits[c] >= RateMax THEN UNCHANGED data ELSE handler
  /\ UNCHANGED pages

(* the window of windowMs ends *)
WindowReset ==
  /\ hits' = [c \in Clients |-> 0]
  /\ UNCHANGED pages
  /\ UNCHANGED data

(* a client whose session is the admin's, at the start of a window, that    *)
(* submits items and uses the admin routes                                  *)
RateInit ==
  /\ items = <<>> /\ claims = <<>>
  /\ nextItemId = 1 /\ nextClaimId = 1
  /\ users = [u \in {AdminName} |->
                [id |-> 1, password_hash |-> "ChangeMe123!", role |-> "admin"]]
  /\ uploads = {} /\ unlinking = {} /\ nextFile = 1
  /\ inflight = {} /\ now = 0
  /\ hits = [c \in Clients |-> 0]
  /\ browse = BrowseLoaded /\ local = LocalLoaded
  /\ session = [c \in Clients |->
                  [id |-> users[AdminName].id, username |-> AdminName,
                   role |-> users[AdminName].role]]

RateNext ==
  \/ \E c \in Clients, body \in ItemBodies, hasPhoto \in BOOLEAN :
       postLimiter(c, PostItems(body, hasPhoto))
  \/ \E c \in Clients, id \in ItemIds, action \in Actions, body \in EditBodies :
       PatchAdminItems(c, id, action, body) /\ UNCHANGED <<hits, pages>>
  \/ \E f \in unlinking : UnlinkDone(f) /\ UNCHANGED <<hits, pages>>
  \/ WindowReset

RateSpec == RateInit /\ [][RateNext]_vars

-----------------------------------------------------------------------------
(* Sessions and the admin gate: login, logout, change-password and every    *)
(* handler behind requireAdmin, with the public handlers that fill the      *)
(* tables the admin handlers act on.                                        *)
NewPassword == "N3wSecret!"
AuthPasswords == Passwords \cup {NewPassword}
AdminQueries ==
  {[DefaultQuery EXCEPT !.status = status, !.q = q] :
     status \in {AbsentParam, "pending"}, q \in {Undefined, KeyTxt}}

AuthInit == Init

AuthNext ==
  \/ \E c \in Clients, u \in Usernames, p \in AuthPasswords :
       PostAuthLogin(c, u, p) /\ UNCHANGED <<hits, pages>>
  \/ \E c \in Clients : PostAuthLogout(c) /\ UNCHANGED <<hits, pages>>
  \/ \E c \in Clients, current \in Passwords, next \in {"letmein", NewPassword} :
       PostAdminChangePassword(c, current, next) /\ UNCHANGED <<hits, pages>>
  \/ \E c \in Clients, query \in AdminQueries :
       GetAdminItems(c, query) /\ UNCHANGED <<hits, pages>>
  \/ \E c \in Clients, status \in {"", "new"} :
       GetAdminClaims(c, status) /\ UNCHANGED <<hits, pages>>
  \/ \E c \in Clients : GetAdminStats(c) /\ UNCHANGED <<hits, pages>>
  \/ \E c \in Clients, id \in ItemIds : GetItemsId(c, id) /\ UNCHANGED <<hits, pages>>
  \/ \E hasPhoto \in BOOLEAN :
       PostItems(GoodItemBody, hasPhoto) /\ UNCHANGED <<hits, pages>>
  \/ \E c \in Clients, id \in ItemIds, action \in Actions, body \in EditBodies :
       PatchAdminItems(c, id, action, body) /\ UNCHANGED <<hits, pages>>
  \/ \E c \in Clients, id \in ItemIds :
       DeleteAdminItemsBegin(c, id) /\ UNCHANGED <<hits, pages>>
  \/ \E r \in inflight : DeleteAdminItemsClaims(r) /\ UNCHANGED <<hits, pages>>
  \/ \E r \in inflight : DeleteAdminItemsRow(r) /\ UNCHANGED <<hits, pages>>
  \/ \E id \in ItemIds :
       PostItemsIdClaimBegin(id, GoodClaimBody, FALSE) /\ UNCHANGED <<hits, pages>>
  \/ \E r \in inflight : PostItemsIdClaimInsert(r) /\ UNCHANGED <<hits, pages>>
  \/ \E c \in Clients, id \in ClaimIds, status \in StatusInputs :
       PatchAdminClaims(c, id, status) /\ UNCHANGED <<hits, pages>>
  \/ \E f \in unlinking : UnlinkDone(f) /\ UNCHANGED <<hits, pages>>

AuthSpec == AuthInit /\ [][AuthNext]_vars

-----------------------------------------------------------------------------
(* The admin actions on a table of two items, the first with a photo, the   *)
(* second with a claim, the admin logged in.                                *)
EditIds == 1..MaxRows

EditInit ==
  /\ \E t \in Tables(2) : items = [t EXCEPT ![1].photo_filename = 1]
  /\ nextItemId = 3
  /\ now = items[2].created_at
  /\ claims = <<ClaimRow(2, GoodClaimBody, 2)>>
  /\ nextClaimId = 2
  /\ users = [u \in {AdminName} |->
                [id |-> 1, password_hash |-> "ChangeMe123!", role |-> "admin"]]
  /\ uploads = {1, 2} /\ unlinking = {} /\ nextFile = 3
  /\ inflight = {}
  /\ hits = [c \in Clients |-> 0]
  /\ browse = BrowseLoaded /\ local = LocalLoaded
  /\ session = [c \in Clients |->
                  [id |-> users[AdminName].id, username |-> AdminName,
                   role |-> users[AdminName].role]]

EditNext ==
  \E c \in Clients, id \in EditIds, action \in Actions, body \in EditBodies :
    PatchAdminItems(c, id, action, body) /\ UNCHANGED <<hits, pages>>

EditSpec == EditInit /\ [][EditNext]_vars

-----------------------------------------------------------------------------
(* The list handler at its two awaits: the COUNT statement, then the page   *)
(* statement, with the requests that change the table in between.           *)
GetItemsCount(query) ==
  /\ Cardinality(inflight) < MaxInflight
  /\ inflight' = inflight \cup
       {[kind |-> "list", query |-> query,
         total |-> Cardinality(Matching(query))]}
  /\ UNCHANGED <<items, claims, nextItemId, nextClaimId, users, uploads,
                 unlinking, nextFile, session, now>>

(* the page statement on the table as it is now, with the total counted     *)
(* before                                                                   *)
GetItemsRowsResponse(r) ==
  [GetItemsResponse(r.query) EXCEPT
     !.body = IF @ = NoBody THEN @ ELSE [@ EXCEPT !.total = r.total]]

GetItemsRows(r) ==
  /\ r \in inflight /\ r.kind = "list"
  /\ GetItemsRowsResponse(r).code \in {200, 500}
  /\ inflight' = inflight \ {r}
  /\ UNCHANGED <<items, claims, nextItemId, nextClaimId, users, uploads,
                 unlinking, nextFile, session, now>>

RaceQueries ==
  {DefaultQuery, [DefaultQuery EXCEPT !.status = "", !.limit = <<"1">>]}

ListRaceInit == Init

ListRaceNext ==
  \/ \E query \in RaceQueries : GetItemsCount(query) /\ UNCHANGED <<hits, pages>>
  \/ \E r \in inflight : GetItemsRows(r) /\ UNCHANGED <<hits, pages>>
  \/ PostItems(GoodItemBody, FALSE) /\ UNCHANGED <<hits, pages>>
  \/ \E c \in Clients : PostAuthLogin(c, AdminName, "ChangeMe123!") /\ UNCHANGED <<hits, pages>>
  \/ \E c \in Clients, id \in ItemIds, action \in Actions, body \in EditBodies :
       PatchAdminItems(c, id, action, body) /\ UNCHANGED <<hits, pages>>
  \/ \E c \in Clients, id \in ItemIds :
       DeleteAdminItemsBegin(c, id) /\ UNCHANGED <<hits, pages>>
  \/ \E r \in inflight : DeleteAdminItemsClaims(r) /\ UNCHANGED <<hits, pages>>
  \/ \E r \in inflight : DeleteAdminItemsRow(r) /\ UNCHANGED <<hits, pages>>

ListRaceSpec == ListRaceInit /\ [][ListRaceNext]_vars

-----------------------------------------------------------------------------
(* The browse page against a server whose table does not change *)
BrowseSpec == Init /\ [][BrowseNext]_vars

-----------------------------------------------------------------------------
(* The localStorage variant (script of the static site): report form,      *)
(* browse page and admin panel over localStorage.  One document is open at  *)
(* a time; loading a page runs its init function.                           *)
MaxStored == 2
MaxClock == 2
MaxSubmits == 3
MaxReads == 2
MaxListeners == 4

LocalPages == {"report", "browse", "admin"}

ReportForms ==
  {[itemName |-> KeyTxt, itemCategory |-> "Keys", itemDescription |-> Txt],
   [itemName |-> UpperTxt, itemCategory |-> "Bags", itemDescription |-> KeyTxt]}

SearchTerms == {<<>>, <<"b", "A">>, <<"K", "E", "Y">>}
CategoryOptions == {"all", "Keys", "Bags"}

toLowerCase(s) == [i \in 1..Len(s) |-> Fold(s[i])]

includes(text, s) ==
  \E k \in 0..(Len(text) - Len(s)) : SubSeq(text, k + 1, k + Len(s)) = s

getItems == local.stored

(* handleReportSubmit: the reader is created, and started only for a file *)
handleReportSubmit(form, hasPhoto) ==
  /\ local.page = "report"
  /\ local.submitted < MaxSubmits
  /\ hasPhoto => Cardinality(local.reads) < MaxReads
  /\ local' = [local EXCEPT
        !.submitted = @ + 1,
        !.reads = IF hasPhoto
                    THEN @ \cup {[n |-> local.submitted + 1, form |-> form]}
                    ELSE @]

newItem(form) ==
  [id |-> local.clock, name |-> form.itemName, category |-> form.itemCategory,
   description |-> form.itemDescription, photo |-> "data:",
   status |-> "pending"]

(* reader.onloadend *)
ReaderLoadEnd(r) ==
  /\ r \in local.reads
  /\ Len(getItems) < MaxStored
  /\ local' = [local EXCEPT !.reads = @ \ {r},
                            !.stored = Append(getItems, newItem(r.form))]

(* a millisecond passes *)
ClockTick ==
  /\ local.clock < MaxClock
  /\ local' = [local EXCEPT !.clock = @ + 1]

(* fault: the grid filled with the stored items of every status *)
renderBrowseItemsAll(term, category) ==
  LET searchTerm == toLowerCase(term)
      Shown(item) ==
        /\ searchTerm # <<>> =>
             \/ includes(toLowerCase(item.name), searchTerm)
             \/ includes(toLowerCase(item.description), searchTerm)
        /\ category # "all" => item.category = category
  IN  SelectSeq(getItems, Shown)

(* renderBrowseItems: the cards of the grid for the inputs given *)
renderBrowseItems(term, category) ==
  LET searchTerm == toLowerCase(term)
      Shown(item) ==
        /\ item.status = "approved"
        /\ searchTerm # <<>> =>
             \/ includes(toLowerCase(item.name), searchTerm)
             \/ includes(toLowerCase(item.description), searchTerm)
        /\ category # "all" => item.category = category
  IN  SelectSeq(getItems, Shown)

(* renderAdminTable on the document l: the rows are rebuilt inside the     *)
(* table body, which stays the same element, and when there are rows       *)
(* addAdminButtonListeners registers one more click listener on it         *)
renderAdminTable(l) ==
  IF Len(l.stored) = 0 THEN l ELSE [l EXCEPT !.listeners = @ + 1]

(* DOMContentLoaded of the page: a new document, its inputs at their        *)
(* defaults; the user leaves the report page when no read is in progress    *)
PageLoad(page) ==
  /\ local.reads = {}
  /\ LET document == [local EXCEPT
            !.page = page, !.term = <<>>, !.category = "all",
            !.grid = IF page = "browse" THEN renderBrowseItems(<<>>, "all")
                     ELSE <<>>,
            !.listeners = 0, !.confirms = 0, !.calls = 0]
     IN  local' = IF page = "admin" THEN renderAdminTable(document)
                  ELSE document

(* keyup in the search bar, change of the category filter *)
SearchKeyUp(term) ==
  /\ local.page = "browse"
  /\ local' = [local EXCEPT
        !.term = term, !.grid = renderBrowseItems(term, local.category)]

CategoryChange(category) ==
  /\ local.page = "browse"
  /\ local' = [local EXCEPT
        !.category = category,
        !.grid = renderBrowseItems(local.term, category)]

(* updateItemStatus(id, 'approved') on the document l: the first item with *)
(* the id is approved, saved, and the table rendered again                 *)
updateItemStatus(l, id) ==
  LET counted == [l EXCEPT !.calls = @ + 1]
      Matches == {i \in 1..Len(l.stored) : l.stored[i].id = id}
      itemIndex == CHOOSE i \in Matches : \A j \in Matches : i <= j
  IN  IF Matches = {} THEN counted
      ELSE renderAdminTable(
             [counted EXCEPT !.stored[itemIndex].status = "approved"])

(* deleteItem(id) on the document l: the items with the id are filtered    *)
(* out, the list saved, and the table rendered again                       *)
deleteItem(l, id) ==
  LET Kept(item) == item.id # id
  IN  renderAdminTable(
        [l EXCEPT !.calls = @ + 1, !.stored = SelectSeq(@, Kept)])

(* A click on the button of class button carrying data-id id.  The table   *)
(* shows Approve for a pending item and Delete for every item.  The event  *)
(* reaches every listener registered on the table body before the click,   *)
(* in order; a listener registered while the event is dispatched is not    *)
(* run for it.  answers[n] is the user's answer to the confirm() of the    *)
(* n-th listener.                                                          *)
AdminClick(button, id, answers) ==
  LET RECURSIVE Dispatch(_, _)
      Dispatch(l, n) ==
        IF n > local.listeners THEN l
        ELSE IF button = "btn-approve"
               THEN Dispatch(updateItemStatus(l, id), n + 1)
               ELSE LET asked == [l EXCEPT !.confirms = @ + 1]
                    IN  IF answers[n]
                          THEN Dispatch(deleteItem(asked, id), n + 1)
                          ELSE Dispatch(asked, n + 1)
  IN  /\ local.page = "admin"
      /\ 2 * local.listeners <= MaxListeners
      /\ \E i \in 1..Len(getItems) :
           /\ getItems[i].id = id
           /\ button = "btn-approve" => getItems[i].status = "pending"
      /\ button = "btn-approve" => \A n \in DOMAIN answers : answers[n]
      /\ local' = Dispatch([local EXCEPT !.confirms = 0, !.calls = 0], 1)

LocalNext ==
  \/ \E form \in ReportForms, hasPhoto \in BOOLEAN :
       handleReportSubmit(form, hasPhoto) /\ UNCHANGED <<data, hits, browse>>
  \/ \E r \in local.reads : ReaderLoadEnd(r) /\ UNCHANGED <<data, hits, browse>>
  \/ ClockTick /\ UNCHANGED <<data, hits, browse>>
  \/ \E page \in LocalPages : PageLoad(page) /\ UNCHANGED <<data, hits, browse>>
  \/ \E term \in SearchTerms : SearchKeyUp(term) /\ UNCHANGED <<data, hits, browse>>
  \/ \E category \in CategoryOptions :
       CategoryChange(category) /\ UNCHANGED <<data, hits, browse>>
  \/ \E button \in {"btn-approve", "btn-delete"}, id \in 1..MaxClock,
        answers \in [1..local.listeners -> BOOLEAN] :
       AdminClick(button, id, answers) /\ UNCHANGED <<data, hits, browse>>

LocalSpec == Init /\ [][LocalNext]_vars

-----------------------------------------------------------------------------
(* The two Submit routes with their uploads, accepted and not *)
MimeTypes == {"image/jpeg", "image/gif", "application/pdf"}
FileSizes == {1024, 6 * 1024 * 1024}

UploadInit == Init

UploadNext ==
  \/ \E body \in ItemBodies, hasPhoto \in BOOLEAN :
       PostItems(body, hasPhoto) /\ UNCHANGED <<hits, pages>>
  \/ \E id \in ItemIds, body \in ClaimBodies, hasProof \in BOOLEAN :
       PostItemsIdClaimBegin(id, body, hasProof) /\ UNCHANGED <<hits, pages>>
  \/ \E r \in inflight : PostItemsIdClaimInsert(r) /\ UNCHANGED <<hits, pages>>
  \/ \E route \in UploadRoutes, mimetype \in MimeTypes, size \in FileSizes :
       uploadSingle(route, mimetype, size) /\ UNCHANGED <<hits, pages>>
  \/ \E r \in inflight : uploadAbort(r) /\ UNCHANGED <<hits, pages>>
  \/ \E f \in unlinking : UnlinkDone(f) /\ UNCHANGED <<hits, pages>>

UploadSpec == UploadInit /\ [][UploadNext]_vars

-----------------------------------------------------------------------------
(* the ids of the rows the public list returns for the query *)
Listed(query) ==
  LET res == GetItemsResponse(query)
  IN  IF res.code = 200
        THEN {res.body.items[n].id : n \in 1..Len(res.body.items)}
        ELSE {}

DefaultStatusQueries == {query \in Queries : query.status = AbsentParam}

ValidItemBodies == {body \in ItemBodies : ItemBodyValid(body)}

C1_SubmitStep ==
  \A body \in ValidItemBodies, hasPhoto \in BOOLEAN :
    PostItems(body, hasPhoto) =>
      /\ PostItemsResponse(body).code = 201
      /\ PostItemsResponse(body).body.status = "pending"
      /\ nextItemId \notin DOMAIN items
      /\ DOMAIN items' = DOMAIN items \cup {nextItemId}
      /\ items'[nextItemId].status = "pending"
      /\ \A i \in DOMAIN items : items'[i] = items[i]

C1_DefaultListHidesUnapproved ==
  \A query \in DefaultStatusQueries :
    \A i \in Listed(query) : items[i].status = "approved"

(* C1: a Submit whose seven required fields are non-empty after capping and *)
(* trimming answers 201 and creates exactly one item row, with status       *)
(* 'pending', leaving the other rows alone; and no list issued without a    *)
(* status parameter returns an item whose status is not 'approved' (which   *)
(* is every state of an item before an approve on it).                      *)
C1_PendingOnSubmit ==
  [](C1_DefaultListHidesUnapproved) /\ [][C1_SubmitStep]_vars

C1_Witness ==
  \E i \in DOMAIN items :
    /\ items[i].status = "pending"
    /\ items[i].title = Txt /\ items[i].photo_filename # NoFile
    /\ GetItemsResponse(DefaultQuery).body.total = 0
    /\ i \in Listed([DefaultQuery EXCEPT !.status = ""])

(* C2: Get of an id with no row answers 404; Get of a row whose status is   *)
(* not 'approved' by a requester who is not an admin answers 403 and        *)
(* carries no field of the row; Get by an admin of an existing id answers   *)
(* 200 with the full row, whatever its status.                              *)
C2_GetVisibility ==
  \A c \in Clients, id \in ItemIds :
    LET res == GetItemsIdResponse(c, id)
        admin == session[c].role = "admin"
    IN  /\ id \notin DOMAIN items => res.code = 404
        /\ (id \in DOMAIN items /\ items[id].status # "approved" /\ ~admin)
             => (res.code = 403 /\ res.body = NoBody)
        /\ (id \in DOMAIN items /\ admin)
             => (res.code = 200 /\ res.body = items[id])

C2_Witness ==
  \E c \in Clients, id \in DOMAIN items :
    /\ items[id].status = "archived"
    /\ session[c] = NoUser
    /\ GetItemsIdResponse(c, id).code = 403

StatusActions == {"approve", "archive", "mark_claimed"}

C3_Step ==
  \A i \in DOMAIN items \cap DOMAIN items' :
    items'[i].status # items[i].status =>
      /\ items'[i].status # "pending"
      /\ \E c \in Clients, action \in StatusActions, body \in EditBodies :
           /\ session[c].role = "admin"
           /\ PatchAdminItems(c, i, action, body)

(* C3: the status of an existing item changes only in a step of the admin   *)
(* PATCH handler taken by an admin session with action approve, archive or  *)
(* mark_claimed, and never changes to 'pending'.                            *)
C3_StatusByAdminOnly == [][C3_Step]_vars

C3_Witness ==
  \E c \in Clients, i \in DOMAIN items :
    /\ items[i].status = "claimed"
    /\ session[c] = NoUser
    /\ ClaimsOf(i) # {}

(* C4: once the status of an item is 'archived', no step changes it while   *)
(* the row exists.                                                          *)
C4_ArchivedTerminal ==
  [][\A i \in DOMAIN items \cap DOMAIN items' :
       items[i].status = "archived" => items'[i].status = "archived"]_vars

(* C5: the status becomes 'approved' only in a step from 'pending', and     *)
(* 'claimed' only in a step from 'approved'.                                *)
C5_StatedEdgesOnly ==
  [][\A i \in DOMAIN items \cap DOMAIN items' :
       items'[i].status # items[i].status =>
         /\ items'[i].status = "approved" => items[i].status = "pending"
         /\ items'[i].status = "claimed" => items[i].status = "approved"]_vars

(* the photo of the item and the proof files of its claim rows *)
ItemFiles(id) == ({items[id].photo_filename} \ {NoFile}) \cup ProofFilesOf(id)

C6_RowStep ==
  \A r \in inflight :
    (r.kind = "delete" /\ r.id \in DOMAIN items /\ DeleteAdminItemsRow(r)) =>
      /\ r.id \notin DOMAIN items'
      /\ \A k \in DOMAIN claims' : claims'[k].item_id # r.id
      /\ \A f \in ItemFiles(r.id) : f \notin uploads' \/ f \in unlinking'
      /\ \A c \in Clients : GetItemsIdResponse(c, r.id)'.code = 404

C6_AbsentStep ==
  \A c \in Clients, id \in ItemIds \ DOMAIN items :
    /\ isAdmin(c) => DeleteAdminItemsGate(c, id).code = 404
    /\ DeleteAdminItemsBegin(c, id) => UNCHANGED data

(* C6: when the DELETE of an admin Delete(id) has run, the item row and the *)
(* claim rows of the item are gone, the photo and the proof files of those  *)
(* claims are absent from the upload store or have their unlink under way,  *)
(* and Get(id) answers 404 to every requester; Delete of an absent id       *)
(* answers 404 and changes nothing.                                         *)
C6_DeleteRemovesAll == [][C6_RowStep /\ C6_AbsentStep]_vars

(* C7: at the step that removes the item row, the photo of the item and the *)
(* proof files of its claims have already been removed from the upload      *)
(* store.                                                                   *)
C7_RowDeletionLast ==
  [][\A r \in inflight :
       (r.kind = "delete" /\ r.id \in DOMAIN items /\ DeleteAdminItemsRow(r))
         => \A f \in ItemFiles(r.id) : f \notin uploads]_vars

(* the file names some row points at *)
FilesReferenced ==
  {items[i].photo_filename : i \in DOMAIN items}
    \cup {claims[k].proof_filename : k \in DOMAIN claims}

C8_Step ==
  \A id \in ItemIds, body \in ClaimBodies, hasProof \in BOOLEAN :
    ( /\ id \notin DOMAIN items \/ items[id].status = "archived"
      /\ PostItemsIdClaimBegin(id, body, hasProof) ) =>
        /\ PostItemsIdClaimGate(id, body).code = 404
        /\ claims' = claims /\ nextClaimId' = nextClaimId
        /\ inflight' = inflight
        /\ hasProof => /\ StoredName \in unlinking'
                       /\ StoredName \notin FilesReferenced'

(* C8: a claim Submit whose item is absent or 'archived' when the handler   *)
(* reads it answers 404 whatever the claim fields are, issues no INSERT     *)
(* (no claim row, then or later) and issues the unlink of the proof file    *)
(* stored for the request.                                                  *)
C8_ArchivedClaimNotFound == [][C8_Step]_vars

C8_Witness ==
  \E i \in DOMAIN items :
    /\ items[i].status = "archived"
    /\ ClaimsOf(i) = {} /\ inflight = {}
    /\ \E f \in unlinking : f \in uploads /\ f \notin FilesReferenced

FiveStatuses == {"new", "in_review", "approved", "rejected", "resolved"}

C9_Step ==
  \A c \in Clients, id \in DOMAIN claims, status \in StatusInputs :
    (session[c].role = "admin" /\ PatchAdminClaims(c, id, status)) =>
      IF status \in FiveStatuses
        THEN /\ PatchAdminClaimsResponse(c, id, status).code = 200
             /\ claims' = [claims EXCEPT ![id].status = status]
        ELSE /\ PatchAdminClaimsResponse(c, id, status).code = 400
             /\ claims' = claims

C9_StoredStatuses == \A k \in DOMAIN claims : claims[k].status \in FiveStatuses

(* C9: PATCH of an existing claim by an admin with one of the five statuses *)
(* answers 200 and sets that status, whatever the status was, leaving the   *)
(* rest of the row and the other rows alone; with any other status it       *)
(* answers 400 and leaves the claims table as it was; every stored claim    *)
(* status is one of the five.                                               *)
C9_ClaimStatusSet == [](C9_StoredStatuses) /\ [][C9_Step]_vars

C9_Witness ==
  \E k \in DOMAIN claims, j \in DOMAIN claims :
    claims[k].status = "resolved" /\ claims[j].status = "new"

(* C10: PATCH of a claim id that has no row, by an admin and with one of    *)
(* the five statuses, answers 404.                                          *)
C10_UnknownClaimNotFound ==
  \A c \in Clients, id \in ClaimIds \ DOMAIN claims, status \in FiveStatuses :
    isAdmin(c) => PatchAdminClaimsResponse(c, id, status).code = 404

(* the request for page p of a list request *)
PageText(p) == <<Digits[p + 1]>>

PageOf(base, p) == GetItemsResponse([base EXCEPT !.page = PageText(p)]).body

RECURSIVE PagesConcat(_, _, _)
PagesConcat(base, p, n) ==
  IF p > n THEN <<>> ELSE PageOf(base, p).items \o PagesConcat(base, p + 1, n)

BaseQueries ==
  {query \in ListQueries : query.page = Undefined /\ ~perPage(query).nan}

(* the concatenation `all' of the pages of a request holds every matching  *)
(* row once, in the order of the sort                                       *)
PagesExact(base, total, all) ==
  /\ Len(all) = total
  /\ {all[k].id : k \in 1..Len(all)} = Matching(base)
  /\ \A k \in 1..Len(all) - 1 :
       IF base.sort = "oldest"
         THEN all[k].created_at <= all[k + 1].created_at
         ELSE all[k].created_at >= all[k + 1].created_at

PagesOf(base, total, limit) ==
  /\ GetItemsResponse(base).body.total = total
  /\ GetItemsResponse(base).body.limit = limit
  /\ \A p \in 1..((total + limit - 1) \div limit) :
       PageOf(base, p).total = total
  /\ PagesExact(base, total,
                PagesConcat(base, 1, (total + limit - 1) \div limit))

Contains(text, q) ==
  \E k \in 0..(Len(text) - Len(q)) :
    \A j \in 1..Len(q) : Fold(text[k + j]) = Fold(q[j])

(* the conjunction of the filters the request supplies *)
Satisfies(row, query) ==
  /\ query.status = AbsentParam => row.status = "approved"
  /\ query.status \notin {AbsentParam, ""} => row.status = query.status
  /\ query.q \notin {Undefined, <<>>} =>
       Contains(row.title, query.q) \/ Contains(row.description, query.q)
  /\ query.category \notin {Undefined, <<>>} => row.category = query.category
  /\ query.location \notin {Undefined, <<>>} =>
       Contains(row.location_found, query.location)
  /\ query.date_from \notin {Undefined, <<>>} =>
       StrLeq(query.date_from, row.date_found)
  /\ query.date_to \notin {Undefined, <<>>} =>
       StrLeq(row.date_found, query.date_to)

(* C12: the public list returns exactly the rows that satisfy every filter  *)
(* supplied (q a substring of title or description, category equal,         *)
(* location a substring of location_found, date_from <= date_found <=       *)
(* date_to, status equal, an omitted status meaning 'approved'), and total  *)
(* counts them.                                                             *)
C12_ExactFilters ==
  \A query \in BaseQueries :
    query.limit = Undefined =>
      /\ Listed(query) = {i \in DOMAIN items : Satisfies(items[i], query)}
      /\ GetItemsResponse(query).body.total =
           Cardinality({i \in DOMAIN items : Satisfies(items[i], query)})

(* a required field of the body is empty after capping and trimming *)
ItemFieldEmpty(body) ==
  \E f \in ItemFields : ItemRow(body, NoFile, 0)[f] = <<>>

ClaimFieldEmpty(body) ==
  \E f \in {"claimant_name", "claimant_email", "message"} :
    ClaimRow(0, body, NoFile)[f] = <<>>

(* the request inserts nothing, and the file stored for it is referenced by *)
(* no row and has its unlink issued; the rest of the store is as before     *)
NothingPersisted(stored) ==
  /\ items' = items /\ claims' = claims
  /\ nextItemId' = nextItemId /\ nextClaimId' = nextClaimId
  /\ inflight' = inflight
  /\ uploads' \ unlinking' = uploads \ unlinking
  /\ stored => StoredName \in unlinking' /\ StoredName \notin FilesReferenced'

EmptyFieldItemBodies == {body \in ItemBodies : ItemFieldEmpty(body)}
EmptyFieldClaimBodies == {body \in ClaimBodies : ClaimFieldEmpty(body)}

(* the answers to the requests with an empty required field *)
C13_Rejected ==
  /\ \A body \in EmptyFieldItemBodies : PostItemsResponse(body).code = 400
  /\ \A id \in DOMAIN items, body \in EmptyFieldClaimBodies :
       items[id].status # "archived" => PostItemsIdClaimGate(id, body).code = 400

(* the steps of those requests that change the state *)
C13_Step ==
  (vars' # vars /\ UNCHANGED <<session, users, nextClaimId, claims>>) =>
    /\ \A body \in EmptyFieldItemBodies, hasPhoto \in BOOLEAN :
         PostItems(body, hasPhoto) => NothingPersisted(hasPhoto)
    /\ \A id \in DOMAIN items, body \in EmptyFieldClaimBodies,
          hasProof \in BOOLEAN :
         ( /\ items[id].status # "archived"
           /\ PostItemsIdClaimBegin(id, body, hasProof) ) =>
            NothingPersisted(hasProof)

(* C13: an item Submit with a required field empty after capping and        *)
(* trimming, or a claim Submit on a listed item with claimant_name,         *)
(* claimant_email or message empty, answers 400, inserts no row in items or *)
(* claims and issues the unlink of the file uploaded with the request, so   *)
(* that the tables are as before and no row references the file.            *)
C13_NoPartialRecord == [](C13_Rejected) /\ [][C13_Step]_vars

C13_Witness ==
  \E i \in DOMAIN items :
    /\ items[i].status = "approved"
    /\ claims = <<>> /\ inflight = {}
    /\ nextFile = 3 /\ unlinking = {1, 2}
    /\ FilesReferenced = {NoFile}

(* the answers to every admin request the client can make in this state *)
AdminAnswers(c) ==
  {GetAdminItemsResponse(c, query).code : query \in AdminQueries}
    \cup {PatchAdminItemsResponse(c, id, action, body).code :
            id \in ItemIds, action \in Actions, body \in EditBodies}
    \cup {DeleteAdminItemsGate(c, id).code : id \in ItemIds}
    \cup {GetAdminClaimsResponse(c, status).code : status \in {"", "new"}}
    \cup {PatchAdminClaimsResponse(c, id, status).code :
            id \in ClaimIds, status \in StatusInputs}
    \cup {GetAdminStatsResponse(c).code}
    \cup {PostAdminChangePasswordResponse(c, current, next).code :
            current \in AuthPasswords, next \in AuthPasswords}

(* the step is an admin request made by the client *)
AdminRequest(c) ==
  \/ \E query \in AdminQueries : GetAdminItems(c, query)
  \/ \E status \in {"", "new"} : GetAdminClaims(c, status)
  \/ GetAdminStats(c)
  \/ \E id \in ItemIds, action \in Actions, body \in EditBodies :
       PatchAdminItems(c, id, action, body)
  \/ \E id \in ItemIds : DeleteAdminItemsBegin(c, id)
  \/ \E id \in ClaimIds, status \in StatusInputs : PatchAdminClaims(c, id, status)
  \/ \E current \in AuthPasswords, next \in AuthPasswords :
       PostAdminChangePassword(c, current, next)

C14_Refused ==
  \A c \in Clients : session[c].role # "admin" => AdminAnswers(c) = {401}

C14_Step ==
  \A c \in Clients :
    session[c].role # "admin" =>
      /\ AdminRequest(c) => UNCHANGED <<users, items, claims, uploads>>
      /\ session'[c].role = "admin" =>
           /\ \E u \in Usernames, p \in AuthPasswords : PostAuthLogin(c, u, p)
           /\ \A u \in Usernames, p \in AuthPasswords :
                PostAuthLogin(c, u, p) =>
                  /\ Trim(u) \in DOMAIN users
                  /\ Verifies(p, users[Trim(u)].password_hash)

(* C14: while the session of a client holds no admin user, every admin      *)
(* request it makes (admin item list, transition or edit, Delete, admin     *)
(* claim list, claim status, stats, change-password) answers 401 and leaves *)
(* users, items, claims and the upload store as they were; and the session  *)
(* comes to hold an admin user only in a login step whose username, once    *)
(* trimmed, is a stored user and whose password verifies against that       *)
(* user's stored hash.                                                      *)
C14_AdminGate == [](C14_Refused) /\ [][C14_Step]_vars

C14_Witness ==
  /\ \A c \in Clients : session[c] = NoUser
  /\ users[AdminName].password_hash = NewPassword
  /\ \E i \in DOMAIN items : items[i].status = "pending"
  /\ \E k \in DOMAIN claims : claims[k].status = "new"

C16_LoggedOut ==
  \A c \in Clients :
    session[c] = NoUser =>
      /\ AdminAnswers(c) = {401}
      /\ \A id \in DOMAIN items :
           items[id].status # "approved" => GetItemsIdResponse(c, id).code = 403

C16_Step ==
  \A c \in Clients :
    /\ PostAuthLogout(c) => session'[c] = NoUser
    /\ \A u \in Usernames, p \in AuthPasswords :
         ( /\ PostAuthLoginResponse(u, p).code # 200
           /\ PostAuthLogin(c, u, p) ) => session'[c] = session[c]
    /\ (session[c] = NoUser /\ session'[c] # NoUser) =>
         \E u \in Usernames, p \in AuthPasswords :
           PostAuthLoginResponse(u, p).code = 200 /\ PostAuthLogin(c, u, p)

(* C16: a logout leaves the session of the client without a user; a session *)
(* without a user gets 401 from every admin request and 403 from the Get of *)
(* an item that is not approved; the session stays without a user until a   *)
(* login that answers 200, and a login that answers anything else leaves    *)
(* the session as it was.                                                   *)
C16_LogoutInvalidates == [](C16_LoggedOut) /\ [][C16_Step]_vars

C16_Witness ==
  /\ \A c \in Clients : session[c] = NoUser
  /\ \E i \in DOMAIN items : items[i].status = "archived"
  /\ \E k \in DOMAIN claims : claims[k].status = "in_review"

(* C18: every stored item has a non-empty title, description, category,     *)
(* location_found and date_found, each within its cap (120, 2000, 60, 120,  *)
(* 10), whatever Submit and edit requests were made.                        *)
C18_StoredItemsValid ==
  \A i \in DOMAIN items :
    /\ Len(items[i].title) \in 1..CapTitle
    /\ Len(items[i].description) \in 1..CapDescription
    /\ Len(items[i].category) \in 1..CapCategory
    /\ Len(items[i].location_found) \in 1..CapLocation
    /\ Len(items[i].date_found) \in 1..CapDate

(* the rows of the answer are those at positions offset + 1 .. offset +     *)
(* limit of the matching rows in their order                                *)
SlicedAt(res, query, offset) ==
  LET all == Ordered(Matching(query), query.sort)
  IN  /\ Len(res.body.items) <= res.body.limit
      /\ \A n \in 1..Len(res.body.items) :
           /\ offset + n <= Len(all)
           /\ res.body.items[n].id = all[offset + n]
      /\ Len(res.body.items) < res.body.limit =>
           offset + Len(res.body.items) >= Len(all)

(* C20: whatever the page and limit parameters are (absent, numeric, zero,  *)
(* negative, above 50, not a number), the list answers with a page that is  *)
(* an integer of at least 1 and a limit that is an integer in 1..50, which  *)
(* are 1 and 20 when the parameters are absent, and with the rows at offset *)
(* (page - 1) * limit.                                                      *)
C20_PageLimitClamped ==
  \A query \in PageLimitQueries :
    LET res == GetItemsResponse(query)
    IN  /\ res.code = 200
        /\ res.body.page \in Nat \ {0}
        /\ res.body.limit \in 1..50
        /\ query.page = Undefined => res.body.page = 1
        /\ query.limit = Undefined => res.body.limit = 20
        /\ SlicedAt(res, query, (res.body.page - 1) * res.body.limit)

(* no file is referenced by two rows *)
NoSharedFile ==
  /\ \A i, j \in DOMAIN items :
       (i # j /\ items[i].photo_filename # NoFile) =>
         items[i].photo_filename # items[j].photo_filename
  /\ \A k, l \in DOMAIN claims :
       (k # l /\ claims[k].proof_filename # NoFile) =>
         claims[k].proof_filename # claims[l].proof_filename
  /\ \A i \in DOMAIN items, k \in DOMAIN claims :
       items[i].photo_filename # NoFile =>
         items[i].photo_filename # claims[k].proof_filename

(* the items whose Delete has issued its unlinks and not yet its DELETE *)
BeingDeleted == {r.id : r \in {x \in inflight : x.kind = "delete" /\ x.pc = "row"}}

(* C17: in every reachable state, the states between the steps of a Delete  *)
(* included, the photo of each item row and the proof of each claim row is  *)
(* a file in the upload store, and no file is referenced by two rows.       *)
C17_RowsReferenceFiles ==
  /\ \A i \in DOMAIN items :
       items[i].photo_filename # NoFile => items[i].photo_filename \in uploads
  /\ \A k \in DOMAIN claims :
       claims[k].proof_filename # NoFile => claims[k].proof_filename \in uploads
  /\ NoSharedFile

(* C17, amended: the same for every item row whose Delete has not issued    *)
(* its unlinks and every claim row of such an item.                         *)
C17_RowsOutsideDelete ==
  /\ \A i \in DOMAIN items \ BeingDeleted :
       items[i].photo_filename # NoFile => items[i].photo_filename \in uploads
  /\ \A k \in DOMAIN claims :
       ( /\ claims[k].item_id \notin BeingDeleted
         /\ claims[k].proof_filename # NoFile ) =>
           claims[k].proof_filename \in uploads
  /\ NoSharedFile

C17_Witness ==
  /\ \E i \in DOMAIN items, k \in DOMAIN claims :
       /\ items[i].photo_filename # NoFile
       /\ claims[k].proof_filename # NoFile
       /\ claims[k].item_id = i
       /\ \E r \in inflight : r.kind = "delete" /\ r.pc = "claims" /\ r.id = i
  /\ BeingDeleted = {}

C19_Step ==
  /\ \A route \in UploadRoutes, mimetype \in MimeTypes, size \in FileSizes :
       ( /\ \/ mimetype \notin {"image/jpeg", "image/png", "image/webp"}
            \/ size > 5 * 1024 * 1024
         /\ uploadSingle(route, mimetype, size) ) =>
           /\ UNCHANGED <<items, claims, nextItemId, nextClaimId>>
           /\ \A r \in inflight' \ inflight : r.kind = "upload"
  /\ \A r \in inflight :
       (r.kind = "upload" /\ uploadAbort(r)) =>
         /\ UNCHANGED <<items, claims, nextItemId, nextClaimId>>
         /\ r.file \notin uploads' \cup FilesReferenced'
         /\ \A q \in inflight' : q.kind = "claim" => q.row.proof_filename # r.file
  /\ \A f \in 1..MaxFiles : (f < nextFile /\ f \notin uploads) => f \notin uploads'

(* C19: an upload whose type is not JPEG, PNG or WEBP, or that is over      *)
(* 5 MiB, ends the item Submit or claim Submit without a row inserted or    *)
(* queued for insertion; when the request has failed, the file it wrote is  *)
(* no longer in the upload store, no row references it, and it does not     *)
(* come back.                                                               *)
C19_RejectedUpload == [][C19_Step]_vars

C19_Witness ==
  /\ items # <<>>
  /\ \E r \in inflight :
       /\ r.kind = "upload" /\ r.route = "/api/items/:id/claim"
       /\ r.file \in uploads /\ r.file \notin FilesReferenced

(* C15: once the client has had RateMax requests counted in the window, its *)
(* next Submit or admin request in that window changes nothing in the       *)
(* tables or the upload store.                                              *)
C15_RateLimited ==
  [][\A c \in Clients :
       hits[c] >= RateMax =>
         /\ \A body \in ItemBodies, hasPhoto \in BOOLEAN :
              postLimiter(c, PostItems(body, hasPhoto)) =>
                UNCHANGED <<items, claims, users, uploads>>
         /\ \A id \in ItemIds, action \in Actions, body \in EditBodies :
              PatchAdminItems(c, id, action, body) =>
                UNCHANGED <<items, claims, users, uploads>>]_vars

CompleteClaimBodies == ClaimBodies \ EmptyFieldClaimBodies

(* the handler goes on to its INSERT for every such request *)
C21_Accepted ==
  \A id \in DOMAIN items, body \in CompleteClaimBodies :
    items[id].status \in {"pending", "approved", "claimed"} =>
      PostItemsIdClaimGate(id, body).code = 0

C21_Step ==
  /\ (\E r \in inflight' \ inflight : r.kind = "claim") =>
       UNCHANGED <<items, claims>>
  /\ \A r \in inflight :
       ( /\ r.kind = "claim" /\ r.row.item_id \in DOMAIN items
         /\ PostItemsIdClaimInsert(r) ) =>
           /\ items' = items
           /\ nextClaimId \notin DOMAIN claims
           /\ DOMAIN claims' = DOMAIN claims \cup {nextClaimId}
           /\ claims'[nextClaimId].status = "new"
           /\ claims'[nextClaimId].item_id = r.row.item_id
           /\ claims'[nextClaimId].proof_filename = r.row.proof_filename
           /\ \A k \in DOMAIN claims : claims'[k] = claims[k]

(* C21: a claim Submit on an item that is pending, approved or claimed,     *)
(* with claimant_name, claimant_email and message non-empty, goes on to its *)
(* INSERT; the INSERT, on an item that still exists, adds exactly one claim *)
(* row, with status 'new' and the item's id, and leaves every item and      *)
(* every other claim as it was.                                             *)
C21_ClaimCreated == [](C21_Accepted) /\ [][C21_Step]_vars

C21_Witness ==
  \E k \in DOMAIN claims :
    /\ claims[k].status = "new" /\ claims[k].proof_filename # NoFile
    /\ claims[k].student_id = <<>>
    /\ claims[k].item_id \in DOMAIN items
    /\ items[claims[k].item_id].status = "claimed"

C22_Owned == \A k \in DOMAIN claims : claims[k].item_id \in DOMAIN items

C22_Step ==
  \A k \in DOMAIN claims \ DOMAIN claims' :
    /\ claims[k].item_id \notin DOMAIN items'
    /\ \E r \in inflight :
         /\ r.kind = "delete" /\ r.id = claims[k].item_id
         /\ DeleteAdminItemsRow(r)

(* C22: the item_id of every claim row is the id of an item row, whatever   *)
(* the interleaving of claim Submits and Deletes, and a claim row goes away *)
(* only in the step that deletes the row of its item.                       *)
C22_ClaimsOwned == [](C22_Owned) /\ [][C22_Step]_vars

C22_Witness ==
  /\ nextClaimId > 1 /\ claims = <<>> /\ items = <<>>
  /\ \E r \in inflight : r.kind = "claim" /\ r.row.item_id \notin DOMAIN items

(* the step changes, of the rows of items, at most the given columns of     *)
(* the row id                                                               *)
OnlyColumns(id, columns) ==
  /\ DOMAIN items' = DOMAIN items
  /\ \A i \in DOMAIN items :
       \A f \in DOMAIN items[i] :
         (i # id \/ f \notin columns) => items'[i][f] = items[i][f]

(* C23: an edit leaves the status, photo_filename, reporter_name,           *)
(* reporter_email, id and created_at of the item as they were, whatever the *)
(* status, and approve, archive and mark_claimed change only the status of  *)
(* the item; none of them changes another item or a claim.                  *)
C23_FrameOfAdminActions ==
  [][\A c \in Clients, id \in EditIds, body \in EditBodies :
       /\ PatchAdminItems(c, id, "edit", body) =>
            /\ OnlyColumns(id, {"title", "description", "category",
                                "location_found", "date_found"})
            /\ claims' = claims
       /\ \A action \in {"approve", "archive", "mark_claimed"} :
            PatchAdminItems(c, id, action, body) =>
              OnlyColumns(id, {"status"}) /\ claims' = claims]_vars

C23_Witness ==
  /\ items[1].status = "archived" /\ items[1].title = KeyTxt
  /\ items[1].description = <<>> /\ items[1].photo_filename = 1
  /\ items[2].title # KeyTxt /\ items[2].status = "claimed"
  /\ claims[1].item_id = 2

(* C24: no claim row is inserted while the status of its item is           *)
(* 'archived', whatever the interleaving of the claim Submit with the       *)
(* archive of the item.                                                     *)
C24_NoClaimOnArchived ==
  [][\A k \in DOMAIN claims' \ DOMAIN claims :
       items[claims'[k].item_id].status # "archived"]_vars

(* C25: once no claim Submit and no Delete is under way and the unlinks     *)
(* they issued are done, every file in the upload store is the photo of an  *)
(* item row or the proof of a claim row.                                    *)
C25_NoOrphanedProof ==
  (inflight = {} /\ unlinking = {}) => uploads \subseteq FilesReferenced

VisibilityQueries ==
  ListFilters \cup {[DefaultQuery EXCEPT !.status = status] :
                      status \in {"approved", "claimed", "archived"}}

(* every item of the list is one the Get gives to the same requester *)
ListWithinGet(c, query) ==
  \A i \in Listed(query) : GetItemsIdResponse(c, i).code = 200

(* C26: for a requester who is not an admin and any query parameters, an    *)
(* explicit or empty status among them, every item the public list returns  *)
(* is one that Get returns to that requester.                               *)
C26_ListWithinGet ==
  \A c \in Clients, query \in VisibilityQueries :
    session[c].role # "admin" => ListWithinGet(c, query)

(* C26, amended: the same for the requests without a status parameter or    *)
(* with status=approved; the items listed are the approved ones.            *)
C26_DefaultListWithinGet ==
  \A c \in Clients, query \in VisibilityQueries :
    (session[c].role # "admin" /\ query.status \in {AbsentParam, "approved"}) =>
      /\ ListWithinGet(c, query)
      /\ \A i \in Listed(query) : items[i].status = "approved"

C26_Witness ==
  /\ \A c \in Clients : session[c] = NoUser
  /\ \E i, j \in DOMAIN items :
       /\ items[i].status = "approved" /\ items[j].status = "pending"
       /\ i \in Listed([DefaultQuery EXCEPT !.status = "approved"])
       /\ j \notin Listed(DefaultQuery)
       /\ j \in Listed([DefaultQuery EXCEPT !.status = ""])

(* C27: in the answer to a public list, total and items belong to the same  *)
(* state of the table whatever requests interleave with the listing:        *)
(* items.length is at most total and is                                     *)
(* min(limit, max(0, total - (page - 1) * limit)).                          *)
C27_TotalMatchesItems ==
  \A r \in inflight :
    r.kind = "list" =>
      LET res == GetItemsRowsResponse(r)
          rest == res.body.total - (res.body.page - 1) * res.body.limit
      IN  res.code = 200 =>
            /\ Len(res.body.items) <= res.body.total
            /\ Len(res.body.items) =
                 IF rest <= 0 THEN 0
                 ELSE IF rest <= res.body.limit THEN rest ELSE res.body.limit

(* C28: when every search of the browse page has been answered, in          *)
(* whatever order, the results, the item count and the page indicator       *)
(* shown are those of the search issued last, and Prev is enabled only if   *)
(* its page is above 1, Next only if its page is below its number of pages. *)
C28_LatestSearchShown ==
  browse.fetches = {} =>
    LET latest == Answer([q |-> browse.q, page |-> browse.page])
        totalPages == Ceil(latest.total, latest.limit)
    IN  /\ browse.status = [text |-> "item(s) found", total |-> latest.total]
        /\ latest.items # <<>> =>
             /\ browse.results = latest.items
             /\ browse.pageInfo[1] = latest.page
        /\ latest.items = <<>> => browse.results = <<"No items">>
        /\ ~browse.prevDisabled => latest.page > 1
        /\ ~browse.nextDisabled => latest.page < totalPages

(* the cards of the grid, the items of the stored list *)
GridItems == {local.grid[n] : n \in 1..Len(local.grid)}
StoredItems == {local.stored[n] : n \in 1..Len(local.stored)}

(* C29: in the localStorage variant the browse page shows exactly the       *)
(* stored items that are approved, that have the search term as a           *)
(* substring of their name or description whatever the case, and that are   *)
(* of the selected category; so no pending item and no deleted item is      *)
(* shown.                                                                   *)
C29_BrowseShowsApproved ==
  local.page = "browse" =>
    /\ GridItems =
         {item \in StoredItems :
            /\ item.status = "approved"
            /\ Contains(item.name, local.term)
                 \/ Contains(item.description, local.term)
            /\ local.category \in {"all", item.category}}
    /\ Len(local.grid) <= Len(local.stored)

C29_Witness ==
  /\ local.page = "browse" /\ local.term = <<"K", "E", "Y">>
  /\ Len(local.grid) = 1 /\ Len(local.stored) = 2
  /\ \E item \in StoredItems : item.status = "pending"
  /\ \E item \in GridItems : item.name # KeyTxt

(* C30: every submission of the report form, with a photo or without,       *)
(* leads to exactly one new item: the submission starts a read, and the end *)
(* of a read appends one item with status 'pending' and an id that no       *)
(* stored item has, the items stored before staying as they were.           *)
C30_SubmissionAppends ==
  [][/\ local'.submitted # local.submitted =>
          Cardinality(local'.reads) = Cardinality(local.reads) + 1
     /\ (local'.reads # local.reads /\ local'.reads \subseteq local.reads) =>
          /\ Len(local'.stored) = Len(local.stored) + 1
          /\ local'.stored[Len(local'.stored)].status = "pending"
          /\ \A i \in 1..Len(local.stored) :
               /\ local'.stored[i] = local.stored[i]
               /\ local.stored[i].id # local'.stored[Len(local'.stored)].id]_vars

-----------------------------------------------------------------------------
(* C31: in the admin panel of the localStorage variant, however often the  *)
(* table has been rendered, one click on an Approve or Delete button asks  *)
(* for at most one delete confirmation, makes at most one updateItemStatus *)
(* or deleteItem call, and leaves every item with another id as it was.    *)
C31_OneClickOneAction ==
  [][\A button \in {"btn-approve", "btn-delete"}, id \in 1..MaxClock,
       answers \in [1..local.listeners -> BOOLEAN] :
       AdminClick(button, id, answers) =>
         LET Other(item) == item.id # id
         IN  /\ local'.confirms <= 1
             /\ local'.calls <= 1
             /\ SelectSeq(local'.stored, Other)
                  = SelectSeq(local.stored, Other)]_vars

=============================================================================
